---------------------------- MODULE Spec2Model ----------------------------
(***************************************************************************)
(* A model of pyBPL's differentiable renderer (pybpl/rendering.py) and of  *)
(* its relation model (pybpl/relation.py).                                 *)
(*                                                                         *)
(* Tensors of floats are modelled as sequences of exact rationals          *)
(* <<n, d>> (d > 0, lowest terms), so every equality below is equality in  *)
(* exact arithmetic; floating-point rounding is not modelled.  Python's    *)
(* 0-based index k is position k+1 of a sequence.                          *)
(***************************************************************************)
EXTENDS Integers, Sequences, FiniteSets, TLC

VARIABLES mtr, rnd, sq, rel, wrp

vars == <<mtr, rnd, sq, rel, wrp>>

(***************************************************************************)
(* Exact rational arithmetic.  An operator that reads an argument more     *)
(* than once binds it first (x \in {arg}), so that the argument is         *)
(* evaluated once: Val(S) is the element of the singleton S.               *)
(***************************************************************************)
Val(S) == CHOOSE r \in S : TRUE

Abs(n) == IF n < 0 THEN -n ELSE n

RECURSIVE GCD(_, _)
GCD(a, b) == IF b = 0 THEN a ELSE GCD(b, a % b)

RNorm(n0, d0) ==
    Val({Val({<<(s * n) \div g, (s * d) \div g>> :
                s \in {IF d < 0 THEN -1 ELSE 1}, g \in {GCD(Abs(n), Abs(d))}}) :
         n \in {n0}, d \in {d0}})

R(n) == <<n, 1>>
RZero == <<0, 1>>
ROne == <<1, 1>>
RNeg(a0) == Val({<<-a[1], a[2]>> : a \in {a0}})
RAdd(a0, b0) ==
    Val({Val({RNorm(a[1] * (b[2] \div g) + b[1] * (a[2] \div g), a[2] * (b[2] \div g)) :
                g \in {GCD(a[2], b[2])}}) :
         a \in {a0}, b \in {b0}})
RSub(a, b) == RAdd(a, RNeg(b))
RMul(a0, b0) ==
    Val({Val({RNorm((a[1] \div g1) * (b[1] \div g2), (a[2] \div g2) * (b[2] \div g1)) :
                g1 \in {GCD(Abs(a[1]), b[2])}, g2 \in {GCD(Abs(b[1]), a[2])}}) :
         a \in {a0}, b \in {b0}})
RInv(a0) == Val({IF a[1] < 0 THEN <<-a[2], -a[1]>> ELSE <<a[2], a[1]>> : a \in {a0}})
RDiv(a, b) == RMul(a, RInv(b))
RLt(a0, b0) ==
    Val({Val({a[1] * (b[2] \div g) < b[1] * (a[2] \div g) : g \in {GCD(a[2], b[2])}}) :
         a \in {a0}, b \in {b0}})
RLe(a, b) == ~RLt(b, a)
RMin(a0, b0) == Val({IF RLt(b, a) THEN b ELSE a : a \in {a0}, b \in {b0}})
RMax(a0, b0) == Val({IF RLt(a, b) THEN b ELSE a : a \in {a0}, b \in {b0}})
RAbs(a0) == Val({<<Abs(a[1]), a[2]>> : a \in {a0}})
RFloor(a0) == Val({R(a[1] \div a[2]) : a \in {a0}})
RCeil(a0) == Val({R(-((-a[1]) \div a[2])) : a \in {a0}})
RSq(e0) == Val({RMul(e, e) : e \in {e0}})
RCube(e0) == Val({RMul(e, RMul(e, e)) : e \in {e0}})

RECURSIVE RSumTo(_, _)
RSumTo(s, n) == IF n = 0 THEN RZero ELSE RAdd(RSumTo(s, n - 1), s[n])

\* torch.sum of a vector
RSum(s0) == Val({RSumTo(s, Len(s)) : s \in {s0}})

\* 2-D points and elementwise tensor arithmetic on them
PAdd(p0, q0) == Val({<<RAdd(p[1], q[1]), RAdd(p[2], q[2])>> : p \in {p0}, q \in {q0}})
PSub(p0, q0) == Val({<<RSub(p[1], q[1]), RSub(p[2], q[2])>> : p \in {p0}, q \in {q0}})
PScale(c0, p0) == Val({<<RMul(c, p[1]), RMul(c, p[2])>> : c \in {c0}, p \in {p0}})
Pt(x, y) == <<R(x), R(y)>>

Last(s0) == Val({s[Len(s)] : s \in {s0}})

(***************************************************************************)
(* Spline evaluator (pybpl/splines.py, used by the motor generator and by  *)
(* the relation model): uniform cubic b-spline with normalised basis.      *)
(***************************************************************************)
\* number of control points per sub-stroke (lib.ncpt)
ncpt == 2

\* bspline_gen_s: the valid parameter range for nland control points
bspline_lb(nland) == R(2)
bspline_ub(nland) == R(nland + 1)

\* bspline_gen_s: neval evenly spaced parameters from lb to ub
bspline_gen_s(nland, neval) ==
    IF neval = 1 THEN <<bspline_lb(nland)>>
    ELSE [j \in 1..neval |->
            RAdd(bspline_lb(nland),
                 RDiv(RMul(R(j - 1), RSub(bspline_ub(nland), bspline_lb(nland))),
                      R(neval - 1)))]

\* the cubic basis polynomial of piece k at offset e in [0, 1)
bspline_piece(k, e) ==
    IF k = 0 THEN RMul(<<1, 6>>, RCube(e))
    ELSE IF k = 1 THEN
        RMul(<<1, 6>>, RAdd(RAdd(RMul(R(-3), RCube(e)), RMul(R(3), RSq(e))),
                            RAdd(RMul(R(3), e), ROne)))
    ELSE IF k = 2 THEN
        RMul(<<1, 6>>, RAdd(RSub(RMul(R(3), RCube(e)), RMul(R(6), RSq(e))), R(4)))
    ELSE IF k = 3 THEN RMul(<<1, 6>>, RCube(RSub(ROne, e)))
    ELSE RZero

\* cubic basis coefficient of control point i (0-based) at parameter s
bspline_coeff(i, s) ==
    Val({Val({bspline_piece(k, RSub(d, R(k))) : k \in {RFloor(d)[1]}}) :
         d \in {RSub(s, R(i))}})

\* bspline_eval for one parameter value: normalised basis times control points
bspline_eval(s0, cpts0) ==
    Val({Val({Val({<<RSum([k \in 1..Len(cpts) |-> RMul(RDiv(Cof[k], sumC), cpts[k][1])]),
                     RSum([k \in 1..Len(cpts) |-> RMul(RDiv(Cof[k], sumC), cpts[k][2])])>> :
                   sumC \in {RSum(Cof)}}) :
              Cof \in {[k \in 1..Len(cpts) |-> bspline_coeff(k - 1, s)]}}) :
         s \in {s0}, cpts \in {cpts0}})

\* get_stk_from_bspline: the trajectory of neval points of a spline
get_stk_from_bspline(P0, neval) ==
    Val({Val({[j \in 1..neval |-> bspline_eval(s[j], P)] :
              s \in {bspline_gen_s(Len(P), neval)}}) :
         P \in {P0}})

(***************************************************************************)
(* Motor generator: vanilla_to_motor.                                      *)
(***************************************************************************)
MaxNsub == 2
MaxNeval == 2

\* one iteration of the loop of vanilla_to_motor without the update of
\* previous_pos
vtm_body_stale(st, shape, invscale, neval) ==
    Val({Val({Val({[motor |-> Append(st.motor, [j \in 1..neval |-> PSub(traj[j], offset)]),
                    motor_spline |-> Append(st.motor_spline,
                        [k \in 1..Len(shapes_scaled) |-> PSub(shapes_scaled[k], offset)]),
                    previous_pos |-> st.previous_pos] :
                   offset \in {PSub(traj[1], st.previous_pos)}}) :
              traj \in {get_stk_from_bspline(shapes_scaled, neval)}}) :
         shapes_scaled \in {[k \in 1..Len(shape) |-> PScale(invscale, shape[k])]}})

\* one iteration of the loop of vanilla_to_motor, for a sub-stroke with control
\* points shape and inverse scale invscale, from the loop state st
vtm_body(st, shape, invscale, neval) ==
    Val({Val({Val({[motor |-> Append(st.motor, [j \in 1..neval |-> PSub(traj[j], offset)]),
                    motor_spline |-> Append(st.motor_spline,
                        [k \in 1..Len(shapes_scaled) |-> PSub(shapes_scaled[k], offset)]),
                    \* previous_pos becomes the last position of the current traj
                    previous_pos |-> PSub(traj[neval], offset)] :
                   \* reposition; shift by offset
                   offset \in {PSub(traj[1], st.previous_pos)}}) :
              \* get trajectories from b-spline
              traj \in {get_stk_from_bspline(shapes_scaled, neval)}}) :
         \* re-scale the control points
         shapes_scaled \in {[k \in 1..Len(shape) |-> PScale(invscale, shape[k])]}})

\* the state of the loop of vanilla_to_motor after sub-strokes 1..i
RECURSIVE vtm_loop(_, _, _, _, _)
vtm_loop(shapes, invscales, first_pos, neval, i) ==
    IF i = 0 THEN [motor |-> <<>>, motor_spline |-> <<>>, previous_pos |-> first_pos]
    ELSE Val({vtm_body(st, shapes[i], invscales[i], neval) :
              st \in {vtm_loop(shapes, invscales, first_pos, neval, i - 1)}})

vanilla_to_motor(shapes, invscales, first_pos, neval) ==
    Val({[motor |-> st.motor, motor_spline |-> st.motor_spline] :
         st \in {vtm_loop(shapes, invscales, first_pos, neval, Len(shapes))}})

\* inputs of vanilla_to_motor
CtrlPts == {Pt(0, 0), Pt(1, 2)}
InvScales == {R(1), <<3, 2>>}
FirstPos == {Pt(0, 0), <<<<1, 2>>, R(-1)>>}
SubShapes == [1..ncpt -> CtrlPts]

SeqsUpTo(S, lo, hi) == UNION {[1..n -> S] : n \in lo..hi}

MotorIdle == [pc |-> "idle"]

InitMotor ==
    /\ \E nsub \in 0..MaxNsub :
       \E shapes \in [1..nsub -> SubShapes], invscales \in [1..nsub -> InvScales],
          first_pos \in FirstPos, neval \in 1..MaxNeval :
          mtr = [pc |-> "call", shapes |-> shapes, invscales |-> invscales,
                 first_pos |-> first_pos, neval |-> neval]
    /\ rnd = [pc |-> "idle"]
    /\ sq = [pc |-> "idle"]
    /\ rel = [pc |-> "idle"]
    /\ wrp = [pc |-> "idle"]

VanillaToMotor ==
    /\ mtr.pc = "call"
    /\ LET out == vanilla_to_motor(mtr.shapes, mtr.invscales, mtr.first_pos, mtr.neval)
       IN  mtr' = [pc |-> "done", shapes |-> mtr.shapes, invscales |-> mtr.invscales,
                   first_pos |-> mtr.first_pos, neval |-> mtr.neval,
                   motor |-> out.motor, motor_spline |-> out.motor_spline]
    /\ UNCHANGED <<rnd, sq, rel, wrp>>

NextMotor == VanillaToMotor

SpecMotor == InitMotor /\ [][NextMotor]_vars

\* C1: after vanilla_to_motor on nsub >= 1 sub-strokes, the first point of
\* sub-stroke 0 equals first_pos, and the last point of every sub-stroke i
\* equals the first point of sub-stroke i+1 (no gap between sub-strokes).
C1_Chaining ==
    (mtr.pc = "done" /\ Len(mtr.shapes) >= 1) =>
        /\ Len(mtr.motor) = Len(mtr.shapes)
        /\ \A i \in 1..Len(mtr.motor) : Len(mtr.motor[i]) = mtr.neval
        /\ mtr.motor[1][1] = mtr.first_pos
        /\ \A i \in 1..(Len(mtr.motor) - 1) :
              Last(mtr.motor[i]) = mtr.motor[i + 1][1]

\* a call with two sub-strokes of several points, scaled differently, whose
\* raw trajectories start away from first_pos, has returned
C1_Witness ==
    /\ mtr.pc = "done"
    /\ Len(mtr.shapes) = 2
    /\ mtr.neval >= 2
    /\ mtr.invscales[1] # mtr.invscales[2]
    /\ mtr.first_pos # Pt(0, 0)
    /\ Last(mtr.motor[1]) # mtr.motor[1][1]
    /\ Last(mtr.motor[2]) # mtr.motor[2][1]

(***************************************************************************)
(* Image renderer: check_bounds, pair_dist, seqadd, render_image.          *)
(* An image is a sequence of rows of rationals; D[r+1][c+1] is pixel       *)
(* (r, c).                                                                 *)
(***************************************************************************)
\* precision of the modelled square root: results are multiples of 1/SqrtDen
SqrtDen == 8

\* parameters (defaultps) read by render_image
imsize == <<2, 2>>
ink == 2
max_dist == 2
ink_a == <<1, 2>>
ink_b == 6
ink_ncon == 2

\* check_bounds with the ceiling compared by >= (the bound of a 0-based grid)
check_bounds_ge(myt, ims) ==
    [k \in 1..Len(myt) |->
        LET xt == myt[k][1]
            yt == myt[k][2]
            x_out == (RFloor(xt)[1] < 0) \/ (RCeil(xt)[1] >= ims[1])
            y_out == (RFloor(yt)[1] < 0) \/ (RCeil(yt)[1] >= ims[2])
        IN  x_out \/ y_out]

\* out[k]: point k of myt is out of the image boundary
check_bounds(myt, ims) ==
    [k \in 1..Len(myt) |->
        LET xt == myt[k][1]
            yt == myt[k][2]
            x_out == (RFloor(xt)[1] < 0) \/ (RCeil(xt)[1] > ims[1])
            y_out == (RFloor(yt)[1] < 0) \/ (RCeil(yt)[1] > ims[2])
        IN  x_out \/ y_out]

RECURSIVE ISqrtFrom(_, _)
ISqrtFrom(n, r) == IF (r + 1) * (r + 1) > n THEN r ELSE ISqrtFrom(n, r + 1)

\* torch.sqrt, rounded down to a multiple of 1/SqrtDen
RSqrt(a) == RNorm(ISqrtFrom((a[1] * SqrtDen * SqrtDen) \div a[2], 0), SqrtDen)

\* distance between each point and the next one
pair_dist(D) ==
    [k \in 1..(Len(D) - 1) |->
        RSqrt(RAdd(RSq(RSub(D[k][1], D[k + 1][1])), RSq(RSub(D[k][2], D[k + 1][2]))))]

\* the subsequence of s at the positions where mask is FALSE: s[~mask]
RECURSIVE Unmasked(_, _)
Unmasked(s, mask) ==
    IF s = <<>> THEN <<>>
    ELSE IF mask[1] THEN Unmasked(Tail(s), Tail(mask))
    ELSE <<s[1]>> \o Unmasked(Tail(s), Tail(mask))

\* util.general.sub2ind: row-major linear index of (row, col)
sub2ind(shape, row, col) == row * shape[2] + col

\* tensor.long(): truncation towards zero
ToLong(a) == IF a[1] >= 0 THEN a[1] \div a[2] ELSE -((-a[1]) \div a[2])

\* seqadd where a pixel takes the ink of the last point mapped to it
seqadd_overwrite(D, lind_x, lind_y, inkval) ==
    LET shape == <<Len(D), Len(D[1])>>
        lind0 == [k \in 1..Len(lind_x) |-> <<lind_x[k], lind_y[k]>>]
        out == check_bounds(lind0, <<shape[1] - 1, shape[2] - 1>>)
        lx == Unmasked(lind_x, out)
        ly == Unmasked(lind_y, out)
        iv == Unmasked(inkval, out)
        lind == [j \in 1..Len(lx) |-> sub2ind(shape, ToLong(lx[j]), ToLong(ly[j]))]
        lind_unique == {lind[j] : j \in 1..Len(lind)}
        last(i) == CHOOSE j \in 1..Len(lind) :
                      lind[j] = i /\ \A j2 \in 1..Len(lind) : lind[j2] = i => j2 <= j
    IN  IF Len(lx) = 0 THEN D
        ELSE [r \in 1..shape[1] |-> [c \in 1..shape[2] |->
                LET i == sub2ind(shape, r - 1, c - 1)
                IN  IF i \in lind_unique THEN RAdd(D[r][c], iv[last(i)])
                    ELSE D[r][c]]]

\* add ink to image D at the indicated locations
seqadd(D, lind_x, lind_y, inkval) ==
    LET shape == <<Len(D), Len(D[1])>>
        \* check if any adding points are out of bounds
        lind0 == [k \in 1..Len(lind_x) |-> <<lind_x[k], lind_y[k]>>]
        out == check_bounds(lind0, <<shape[1] - 1, shape[2] - 1>>)
        \* keep only the adding points that are in bounds
        lx == Unmasked(lind_x, out)
        ly == Unmasked(lind_y, out)
        iv == Unmasked(inkval, out)
        \* convert the indices from 2D to 1D
        lind == [j \in 1..Len(lx) |-> sub2ind(shape, ToLong(lx[j]), ToLong(ly[j]))]
        \* sum all inkvals with same index
        lind_unique == {lind[j] : j \in 1..Len(lind)}
        inkval_unique(i) ==
            RSum([j \in 1..Len(lind) |-> IF lind[j] = i THEN iv[j] ELSE RZero])
    IN  IF Len(lx) = 0 THEN D
        ELSE \* D.scatter_add(0, lind_unique, inkval_unique)
             [r \in 1..shape[1] |-> [c \in 1..shape[2] |->
                LET i == sub2ind(shape, r - 1, c - 1)
                IN  IF i \in lind_unique THEN RAdd(D[r][c], inkval_unique(i))
                    ELSE D[r][c]]]

\* (x, -y) -> (y, x): motor space to image space
space_motor_to_img(pt) == <<RSub(RZero, pt[2]), pt[1]>>

(***************************************************************************)
(* seqadd called on its own.                                               *)
(***************************************************************************)
MaxAdd == 2

Zeros(shape) == [r \in 1..shape[1] |-> [c \in 1..shape[2] |-> RZero]]

\* inputs of seqadd: integer-valued adding points in and around the grid
AddPts == {Pt(0, 0), Pt(0, 1), Pt(1, 0), Pt(1, 1),
           Pt(-1, 0), Pt(2, 1), Pt(0, 2), Pt(1, -1)}
AddInk == {<<1, 2>>, R(1)}
AddImages == {Zeros(imsize), <<<<R(1), RZero>>, <<<<1, 4>>, R(3)>>>>}

Perms(n) == {f \in [1..n -> 1..n] : \A a, b \in 1..n : f[a] = f[b] => a = b}

InitSeqadd ==
    /\ \E k \in 0..MaxAdd :
       \E pts \in [1..k -> AddPts], inkval \in [1..k -> AddInk], D \in AddImages :
          sq = [pc |-> "call", D |-> D,
                lind_x |-> [j \in 1..k |-> pts[j][1]],
                lind_y |-> [j \in 1..k |-> pts[j][2]],
                inkval |-> inkval]
    /\ mtr = [pc |-> "idle"]
    /\ rnd = [pc |-> "idle"]
    /\ rel = [pc |-> "idle"]
    /\ wrp = [pc |-> "idle"]

\* D = seqadd(D, lind_x, lind_y, inkval)
Seqadd ==
    /\ sq.pc = "call"
    /\ sq' = [pc |-> "done", D |-> sq.D, lind_x |-> sq.lind_x, lind_y |-> sq.lind_y,
              inkval |-> sq.inkval,
              out |-> seqadd(sq.D, sq.lind_x, sq.lind_y, sq.inkval)]
    /\ UNCHANGED <<mtr, rnd, rel, wrp>>

\* the same call with the adding points given in another order
SeqaddPermuted ==
    /\ sq.pc = "done"
    /\ \E f \in Perms(Len(sq.inkval)) :
          sq' = [pc |-> "permuted", D |-> sq.D, lind_x |-> sq.lind_x,
                 lind_y |-> sq.lind_y, inkval |-> sq.inkval, out |-> sq.out,
                 perm |-> f,
                 out_perm |-> seqadd(sq.D,
                                     [j \in 1..Len(f) |-> sq.lind_x[f[j]]],
                                     [j \in 1..Len(f) |-> sq.lind_y[f[j]]],
                                     [j \in 1..Len(f) |-> sq.inkval[f[j]]])]
    /\ UNCHANGED <<mtr, rnd, rel, wrp>>

NextSeqadd == Seqadd \/ SeqaddPermuted

SpecSeqadd == InitSeqadd /\ [][NextSeqadd]_vars

\* the adding points of the call that lie on pixel (r, c) of the grid
OnPixel(r, c) ==
    {k \in 1..Len(sq.inkval) : sq.lind_x[k] = R(r) /\ sq.lind_y[k] = R(c)}

RECURSIVE InkOf(_)
InkOf(K) ==
    IF K = {} THEN RZero
    ELSE LET k == CHOOSE k \in K : TRUE
         IN  RAdd(sq.inkval[k], InkOf(K \ {k}))

\* C10: seqadd adds to every pixel the sum of the ink of all the in-grid
\* adding points mapped to it (none overwritten or lost), leaves the pixels no
\* point maps to unchanged, and gives the same grid for every permutation of
\* the adding points.
C10_SplatAccumulation ==
    /\ sq.pc \in {"done", "permuted"} =>
          \A r \in 0..(Len(sq.D) - 1), c \in 0..(Len(sq.D[1]) - 1) :
             sq.out[r + 1][c + 1] = RAdd(sq.D[r + 1][c + 1], InkOf(OnPixel(r, c)))
    /\ sq.pc = "permuted" => sq.out_perm = sq.out

\* two adding points of different ink on one pixel, a pixel without points,
\* and the points taken in the other order
C10_Witness ==
    /\ sq.pc = "permuted"
    /\ Len(sq.inkval) = 2
    /\ sq.inkval[1] # sq.inkval[2]
    /\ sq.perm = <<2, 1>>
    /\ \E r, c \in 0..1 : Cardinality(OnPixel(r, c)) = 2
    /\ \E r, c \in 0..1 : OnPixel(r, c) = {} /\ sq.D[r + 1][c + 1] # RZero

(***************************************************************************)
(* render_image: the loop over the sub-strokes (one iteration per step),   *)
(* then broadening, truncation, blur and the blend with the noise.         *)
(***************************************************************************)
\* the total number of trajectory points of one call of render_image
MaxPoints == 3

fsize == 3

\* the ink of each point of the in-bounds trajectory myt, from the distance
\* between each point and the next one
raw_ink(myt) ==
    LET n == Len(myt)
        dist0 == pair_dist(myt)
        dist1 == [k \in 1..(n - 1) |-> RMin(dist0[k], R(max_dist))]
        dist == <<dist1[1]>> \o dist1
    IN  IF n = 1 THEN <<R(ink)>>
        ELSE [k \in 1..n |-> RMul(RDiv(R(ink), R(max_dist)), dist[k])]

\* render_image's ink of a stroke without the minimum amount of ink
stroke_ink_raw(myt) == raw_ink(myt)

\* the ink of each point of the in-bounds trajectory myt, after the
\* normalisation of the stroke's total
stroke_ink(myt) ==
    LET n == Len(myt)
        myink == raw_ink(myt)
        sumink == RSum(myink)
    IN  IF RLt(RAbs(sumink), <<1, 1000000>>)
        THEN [k \in 1..n |-> RDiv(R(ink), R(n))]
        ELSE IF RLt(sumink, R(ink))
        THEN [k \in 1..n |-> RMul(RDiv(R(ink), sumink), myink[k])]
        ELSE myink

\* assert torch.sum(myink) > (ink-1e-4)
ink_assert(myink) == RLt(RSub(R(ink), <<1, 10000>>), RSum(myink))

\* share the ink of every point with the neighboring 4 pixels
splat(pimg, myt, myink) ==
    LET n == Len(myt)
        x == [k \in 1..n |-> myt[k][1]]
        y == [k \in 1..n |-> myt[k][2]]
        xfloor == [k \in 1..n |-> RFloor(x[k])]
        yfloor == [k \in 1..n |-> RFloor(y[k])]
        xceil == [k \in 1..n |-> RCeil(x[k])]
        yceil == [k \in 1..n |-> RCeil(y[k])]
        x_c_ratio == [k \in 1..n |-> RSub(x[k], xfloor[k])]
        y_c_ratio == [k \in 1..n |-> RSub(y[k], yfloor[k])]
        x_f_ratio == [k \in 1..n |-> RSub(ROne, x_c_ratio[k])]
        y_f_ratio == [k \in 1..n |-> RSub(ROne, y_c_ratio[k])]
        Ink(xr, yr) == [k \in 1..n |-> RMul(RMul(myink[k], xr[k]), yr[k])]
        p1 == seqadd(pimg, xfloor, yfloor, Ink(x_f_ratio, y_f_ratio))
        p2 == seqadd(p1, xceil, yfloor, Ink(x_c_ratio, y_f_ratio))
        p3 == seqadd(p2, xfloor, yceil, Ink(x_f_ratio, y_c_ratio))
    IN  seqadd(p3, xceil, yceil, Ink(x_c_ratio, y_c_ratio))

\* util.general.imfilter(img, K, mode='conv'): convolution with the square
\* kernel K of odd size, the image padded with zeros
imfilter(img, K) ==
    LET h == (Len(K) - 1) \div 2
        H == Len(img)
        W == Len(img[1])
        Tap(r, c, dr, dc) ==
            IF r - dr \in 1..H /\ c - dc \in 1..W
            THEN RMul(K[h + 1 + dr][h + 1 + dc], img[r - dr][c - dc])
            ELSE RZero
    IN  [r \in 1..H |-> [c \in 1..W |->
            RSum([t \in 1..(Len(K) * Len(K)) |->
                    Tap(r, c, ((t - 1) \div Len(K)) - h, ((t - 1) % Len(K)) - h)])]]

\* the 3x3 kernel that broadens the stroke
H_broaden ==
    LET a == ink_a
        b == R(ink_b)
        a12 == RMul(b, RDiv(a, R(12)))
        a6 == RMul(b, RDiv(a, R(6)))
        mid == RMul(b, RSub(ROne, a))
    IN  <<<<a12, a6, a12>>, <<a6, mid, a6>>, <<a12, a6, a12>>>>

\* a rational stand-in for exp(-q), q >= 0: 1 / (1 + q)
ExpNeg(q) == RDiv(ROne, RAdd(ROne, q))

\* util.general.fspecial(n, sigma, ftype='gaussian'): the normalised kernel
fspecial(n, sigma) ==
    LET h == (n - 1) \div 2
        w(a, b) == ExpNeg(RDiv(R((a - h - 1) * (a - h - 1) + (b - h - 1) * (b - h - 1)),
                               RMul(R(2), RSq(sigma))))
        total == RSum([t \in 1..(n * n) |-> w(((t - 1) \div n) + 1, ((t - 1) % n) + 1)])
    IN  [a \in 1..n |-> [b \in 1..n |-> RDiv(w(a, b), total)]]

RECURSIVE Repeat(_, _, _)
Repeat(img, K, n) == IF n = 0 THEN img ELSE Repeat(imfilter(img, K), K, n - 1)

\* torch.min(pimg, max_val) and torch.max(pimg, min_val)
trunc_max(img) == [r \in 1..Len(img) |-> [c \in 1..Len(img[1]) |-> RMin(img[r][c], ROne)]]
trunc_min(img) == [r \in 1..Len(img) |-> [c \in 1..Len(img[1]) |-> RMax(img[r][c], RZero)]]

\* lines 271-301: broaden, truncate, blur, truncate
filtered_map(pimg, blur_sigma) ==
    LET broad == trunc_max(Repeat(pimg, H_broaden, ink_ncon))
        blurred == IF RLt(RZero, blur_sigma)
                   THEN Repeat(broad, fspecial(fsize, blur_sigma), 2)
                   ELSE broad
    IN  trunc_min(trunc_max(blurred))

\* the blend with the sign of the noise term flipped
blend_plus(p, epsilon) == RAdd(RMul(RSub(ROne, epsilon), p), RMul(epsilon, RAdd(ROne, p)))

\* probability of a pixel being on
blend(p, epsilon) == RAdd(RMul(RSub(ROne, epsilon), p), RMul(epsilon, RSub(ROne, p)))

blend_image(img, epsilon) ==
    [r \in 1..Len(img) |-> [c \in 1..Len(img[1]) |-> blend(img[r][c], epsilon)]]

\* inputs of render_image: trajectory points in motor space; their images
\* are inside the image, on its edge (a ceiling equal to the image dimension)
\* and out of it
ImgPts == {<<<<1, 2>>, <<1, 2>>>>, Pt(1, 0), Pt(2, 1), <<R(1), <<3, 2>>>>,
           <<<<-1, 2>>, R(1)>>, <<R(1), <<5, 2>>>>}
MotorPts == {<<q[2], RSub(RZero, q[1])>> : q \in ImgPts}
Epsilons == {RZero, <<1, 2>>, <<1, 10>>}
BlurSigmas == {RZero, ROne}

InitRender ==
    /\ rnd = [pc |-> "loop", cell_traj |-> <<>>, npts |-> 0, pimg |-> Zeros(imsize),
              before |-> Zeros(imsize), ink_off_page |-> FALSE, myt |-> <<>>,
              myink |-> <<>>]
    /\ mtr = [pc |-> "idle"]
    /\ sq = [pc |-> "idle"]
    /\ rel = [pc |-> "idle"]
    /\ wrp = [pc |-> "idle"]

\* one iteration of the loop over the sub-strokes, for the next trajectory
\* of cell_traj
RenderStroke ==
    /\ rnd.pc = "loop"
    /\ \E n \in 1..(MaxPoints - rnd.npts) : \E traj \in [1..n -> MotorPts] :
         LET myt0 == [k \in 1..n |-> space_motor_to_img(traj[k])]
             out == check_bounds(myt0, imsize)
             any == \E k \in 1..n : out[k]
             all == \A k \in 1..n : out[k]
             myt == Unmasked(myt0, out)
             myink == stroke_ink(myt)
             seen == [rnd EXCEPT !.cell_traj = Append(@, traj), !.npts = @ + n,
                                 !.before = rnd.pimg,
                                 !.ink_off_page = @ \/ any,
                                 !.myt = myt,
                                 !.myink = IF all THEN <<>> ELSE myink]
         IN  rnd' = IF all THEN seen
                    ELSE IF ~ink_assert(myink)
                    THEN [seen EXCEPT !.pc = "AssertionError"]
                    ELSE [seen EXCEPT !.pimg = splat(rnd.pimg, myt, myink)]
    /\ UNCHANGED <<mtr, sq, rel, wrp>>

\* the rest of render_image, after the last sub-stroke
RenderFinish ==
    /\ rnd.pc = "loop"
    /\ Len(rnd.cell_traj) >= 1
    /\ \E epsilon \in Epsilons, blur_sigma \in BlurSigmas :
             rnd' = [pc |-> "done", cell_traj |-> rnd.cell_traj, npts |-> rnd.npts,
                     pimg |-> rnd.pimg, before |-> rnd.before,
                     ink_off_page |-> rnd.ink_off_page,
                     myt |-> rnd.myt, myink |-> rnd.myink,
                     epsilon |-> epsilon, blur_sigma |-> blur_sigma,
                     out |-> blend_image(filtered_map(rnd.pimg, blur_sigma), epsilon)]
    /\ UNCHANGED <<mtr, sq, rel, wrp>>

NextRender == RenderStroke \/ RenderFinish

SpecRender == InitRender /\ [][NextRender]_vars

\* a point of a trajectory whose image is out of the image: floor < 0 or
\* ceiling > image dimension, on either axis
OutOfImage(p) ==
    LET q == <<RSub(RZero, p[2]), p[1]>>
    IN  \/ q[1][1] < 0 \/ RLt(R(imsize[1]), q[1])
        \/ q[2][1] < 0 \/ RLt(R(imsize[2]), q[2])

ImageTotal(img) == RSum([r \in 1..Len(img) |-> RSum(img[r])])

\* C2: ink_off_page is true exactly when some point of some trajectory is
\* out of bounds; a trajectory with every point out of bounds sets the flag
\* and adds no ink to the grid.
C2_OffPageFlag ==
    rnd.pc \in {"loop", "done"} =>
        /\ rnd.ink_off_page =
              (\E i \in 1..Len(rnd.cell_traj) : \E k \in 1..Len(rnd.cell_traj[i]) :
                  OutOfImage(rnd.cell_traj[i][k]))
        /\ (/\ Len(rnd.cell_traj) >= 1
            /\ \A k \in 1..Len(Last(rnd.cell_traj)) : OutOfImage(Last(rnd.cell_traj)[k]))
           => rnd.ink_off_page /\ rnd.pimg = rnd.before

\* a rendering returned whose first trajectory is inside the image and has
\* left ink, and whose last trajectory of two points is all out of bounds
C2_Witness ==
    /\ rnd.pc = "done"
    /\ Len(rnd.cell_traj) = 2
    /\ \A k \in 1..Len(rnd.cell_traj[1]) : ~OutOfImage(rnd.cell_traj[1][k])
    /\ Len(rnd.cell_traj[2]) = 2
    /\ \A k \in 1..2 : OutOfImage(rnd.cell_traj[2][k])
    /\ rnd.ink_off_page
    /\ rnd.pimg # Zeros(imsize)

\* C3: a stroke whose points all pass render_image's bounds check adds at
\* least ink - 1e-4 to the grid when it has two points or more, and exactly
\* ink when it has one point.
C3_InkConserved ==
    (/\ rnd.pc = "loop"
     /\ Len(rnd.cell_traj) >= 1
     /\ \A k \in 1..Len(Last(rnd.cell_traj)) : ~OutOfImage(Last(rnd.cell_traj)[k]))
    => LET added == RSub(ImageTotal(rnd.pimg), ImageTotal(rnd.before))
       IN  IF Len(Last(rnd.cell_traj)) = 1 THEN added = R(ink)
           ELSE RLe(RSub(R(ink), <<1, 10000>>), added)

\* C11: the assertion on the total ink of a stroke never fails: for every
\* stroke with an in-bounds point the total of the normalised ink is greater
\* than ink - 1e-4; a total near zero is replaced by ink spread evenly over
\* the points, a total below ink is scaled up to ink, and a total at or above
\* ink is kept.
C11_InkBudget ==
    /\ rnd.pc # "AssertionError"
    /\ (rnd.pc = "loop" /\ Len(rnd.myt) >= 1) =>
          LET n == Len(rnd.myt)
              raw == raw_ink(rnd.myt)
              total == RSum(raw)
          IN  /\ RLt(RSub(R(ink), <<1, 10000>>), RSum(rnd.myink))
              /\ RLt(RAbs(total), <<1, 1000000>>) =>
                    \A k \in 1..n : rnd.myink[k] = RDiv(R(ink), R(n))
              /\ (RLe(<<1, 1000000>>, RAbs(total)) /\ RLt(total, R(ink))) =>
                    /\ RSum(rnd.myink) = R(ink)
                    /\ \A k \in 1..n : rnd.myink[k] = RMul(RDiv(R(ink), total), raw[k])
              /\ RLe(R(ink), total) => rnd.myink = raw

\* a stroke of two distinct in-bounds points less than max_dist apart, whose
\* total ink was below ink and has been scaled up to ink
C11_Witness ==
    /\ rnd.pc = "loop"
    /\ Len(rnd.myt) = 2
    /\ RLt(RZero, RSum(raw_ink(rnd.myt)))
    /\ RLt(RSum(raw_ink(rnd.myt)), R(ink))
    /\ RSum(rnd.myink) = R(ink)

\* C8: with epsilon = 0 the output is the truncated (and blurred) ink map
\* unchanged; with epsilon = 1/2 every output pixel is exactly 1/2.
C8_BlendLaw ==
    rnd.pc = "done" =>
        /\ rnd.epsilon = RZero => rnd.out = filtered_map(rnd.pimg, rnd.blur_sigma)
        /\ rnd.epsilon = <<1, 2>> =>
              \A r \in 1..imsize[1], c \in 1..imsize[2] : rnd.out[r][c] = <<1, 2>>

\* renderings with epsilon = 1/2 of a map with ink, blurred, and with
\* epsilon = 0 of a map whose pixels differ
C8_Witness ==
    /\ rnd.pc = "done"
    /\ rnd.pimg # Zeros(imsize)
    /\ \/ rnd.epsilon = <<1, 2>> /\ rnd.blur_sigma = ROne
       \/ rnd.epsilon = RZero /\ rnd.out[1][1] # rnd.out[2][2]

(***************************************************************************)
(* Warp applicator: apply_warp.  A stroke is a sequence of sub-stroke      *)
(* trajectories; com_char and affine_warp (pybpl/util/stroke.py) are the   *)
(* centre of mass of all the points and point * scale + translation.       *)
(***************************************************************************)
MaxStk == 2

\* torch.cat of a list of strokes: the sub-strokes of all of them
RECURSIVE Cat(_)
Cat(strokes) == IF strokes = <<>> THEN <<>> ELSE Head(strokes) \o Cat(Tail(strokes))

\* the centre of mass of all the points of the sub-strokes of char
com_char(char) ==
    LET pts == Cat(char)
        n == Len(pts)
    IN  <<RDiv(RSum([k \in 1..n |-> pts[k][1]]), R(n)),
          RDiv(RSum([k \in 1..n |-> pts[k][2]]), R(n))>>

\* scale, then translate, every point of stroke stk
affine_warp(stk, B) ==
    [i \in 1..Len(stk) |-> [k \in 1..Len(stk[i]) |->
        <<RAdd(RMul(stk[i][k][1], B[1]), B[3]), RAdd(RMul(stk[i][k][2], B[2]), B[4])>>]]

\* the affine transformation of apply_warp with the translation of A as it is
warp_B_plain(com, A) == A

\* B[:2] = A[:2]; B[2:] = A[2:] - (A[:2]-1)*com
warp_B(com, A) ==
    <<A[1], A[2],
      RSub(A[3], RMul(RSub(A[1], ROne), com[1])),
      RSub(A[4], RMul(RSub(A[2], ROne), com[2]))>>

apply_warp(motor_unwarped, A) ==
    LET cell_traj == Cat(motor_unwarped)
        com == com_char(cell_traj)
        B == warp_B(com, A)
    IN  [i \in 1..Len(motor_unwarped) |-> affine_warp(motor_unwarped[i], B)]

\* inputs of apply_warp: sub-stroke trajectories of two points, strokes of
\* one or two sub-strokes, scales and translations
WarpTrajs == {<<Pt(0, 0), Pt(1, -1)>>, <<Pt(1, -1), Pt(3, -1)>>,
              <<<<<<1, 2>>, R(-2)>>, Pt(0, -3)>>}
WarpStrokes == SeqsUpTo(WarpTrajs, 1, 2)
WarpScales == {ROne, R(2), <<1, 2>>}
WarpShifts == {Pt(0, 0), <<R(1), <<-1, 2>>>>}

InitWarp ==
    /\ \E motor \in SeqsUpTo(WarpStrokes, 1, MaxStk), sx \in WarpScales,
          sy \in WarpScales, t \in WarpShifts :
          wrp = [pc |-> "call", motor |-> motor, A |-> <<sx, sy, t[1], t[2]>>]
    /\ mtr = [pc |-> "idle"]
    /\ rnd = [pc |-> "idle"]
    /\ sq = [pc |-> "idle"]
    /\ rel = [pc |-> "idle"]

ApplyWarp ==
    /\ wrp.pc = "call"
    /\ wrp' = [pc |-> "done", motor |-> wrp.motor, A |-> wrp.A,
               B |-> warp_B(com_char(Cat(wrp.motor)), wrp.A),
               motor_warped |-> apply_warp(wrp.motor, wrp.A)]
    /\ UNCHANGED <<mtr, rnd, sq, rel>>

NextWarp == ApplyWarp

SpecWarp == InitWarp /\ [][NextWarp]_vars

\* C12: apply_warp keeps the scales of A, and maps every point p of every
\* stroke to A[:2]*(p - com) + com + A[2:], where com is the centre of mass
\* of all the points; the centre of mass of the warped character is
\* com + A[2:]; the identity warp (1, 1, 0, 0) leaves every point unchanged.
C12_WarpAnchoring ==
    wrp.pc = "done" =>
        LET A == wrp.A
            com == com_char(Cat(wrp.motor))
        IN  /\ wrp.B[1] = A[1] /\ wrp.B[2] = A[2]
            /\ wrp.B[3] = RSub(A[3], RMul(RSub(A[1], ROne), com[1]))
            /\ wrp.B[4] = RSub(A[4], RMul(RSub(A[2], ROne), com[2]))
            /\ Len(wrp.motor_warped) = Len(wrp.motor)
            /\ \A s \in 1..Len(wrp.motor) :
                  /\ Len(wrp.motor_warped[s]) = Len(wrp.motor[s])
                  /\ \A i \in 1..Len(wrp.motor[s]) : \A k \in 1..Len(wrp.motor[s][i]) :
                        wrp.motor_warped[s][i][k] =
                            <<RAdd(RAdd(RMul(A[1], RSub(wrp.motor[s][i][k][1], com[1])),
                                        com[1]), A[3]),
                              RAdd(RAdd(RMul(A[2], RSub(wrp.motor[s][i][k][2], com[2])),
                                        com[2]), A[4])>>
            /\ com_char(Cat(wrp.motor_warped)) = <<RAdd(com[1], A[3]), RAdd(com[2], A[4])>>
            /\ A = <<ROne, ROne, RZero, RZero>> => wrp.motor_warped = wrp.motor

\* a character of two strokes warped with unequal scales and a translation,
\* whose points have moved
C12_Witness ==
    /\ wrp.pc = "done"
    /\ Len(wrp.motor) = 2
    /\ wrp.A[1] = R(2) /\ wrp.A[2] = <<1, 2>> /\ wrp.A[3] = R(1)
    /\ wrp.motor_warped # wrp.motor
    /\ com_char(Cat(wrp.motor)) # Pt(0, 0)

(***************************************************************************)
(* Relation model (pybpl/relation.py).  A log-probability is -infinity,    *)
(* a constant, or the term log_prob(x) - log(cdf(ub) - cdf(lb)) of the     *)
(* normal distribution eval_spot_dist, kept symbolic.                      *)
(***************************************************************************)
MaxPrev == 2

categories_allowed == {"unihist", "start", "end", "mid"}

None == <<>>
NegInf == [kind |-> "neginf"]
Const(v) == [kind |-> "const", v |-> v]
Normal(loc, scale) == [loc |-> loc, scale |-> scale]
log_prob(dist, x) == [kind |-> "log_prob", dist |-> dist, x |-> x]
cdf(dist, x) == [kind |-> "cdf", dist |-> dist, x |-> x]
Minus(a, b) == [kind |-> "sub", a |-> a, b |-> b]
Log(a) == [kind |-> "log", a |-> a]

\* lib.tokenvar['sigma_attach']
sigma_attach == <<1, 2>>

\* score_eval_spot_token without the test of the bounds
score_eval_spot_token_unbounded(eval_spot_token, eval_spot_dist, n) ==
    LET lb == bspline_lb(n)
        ub == bspline_ub(n)
        ll == log_prob(eval_spot_dist, eval_spot_token)
        p_within == Minus(cdf(eval_spot_dist, ub), cdf(eval_spot_dist, lb))
    IN  Minus(ll, Log(p_within))

\* score_eval_spot_token with the bounds themselves out of the range
score_eval_spot_token_open(eval_spot_token, eval_spot_dist, n) ==
    LET lb == bspline_lb(n)
        ub == bspline_ub(n)
        ll == log_prob(eval_spot_dist, eval_spot_token)
        p_within == Minus(cdf(eval_spot_dist, ub), cdf(eval_spot_dist, lb))
    IN  IF RLe(eval_spot_token, lb) \/ RLe(ub, eval_spot_token) THEN NegInf
        ELSE Minus(ll, Log(p_within))

score_eval_spot_token(eval_spot_token, eval_spot_dist, n) ==
    LET lb == bspline_lb(n)
        ub == bspline_ub(n)
        ll == log_prob(eval_spot_dist, eval_spot_token)
        \* correction for bounds
        p_within == Minus(cdf(eval_spot_dist, ub), cdf(eval_spot_dist, lb))
    IN  IF RLt(eval_spot_token, lb) \/ RLt(ub, eval_spot_token) THEN NegInf
        ELSE Minus(ll, Log(p_within))

\* Relation.score_token and its override in RelationAttachAlong
score_token(r) ==
    IF r.cls = "RelationAttachAlong"
    THEN score_eval_spot_token(r.eval_spot_token, Normal(r.eval_spot, sigma_attach), ncpt)
    ELSE Const(0)

\* Python's s[ix] on a sequence of length n: the position read, 0 when the
\* index is out of range (IndexError)
PyIndex(n, ix) ==
    IF 0 <= ix /\ ix < n THEN ix + 1
    ELSE IF -n <= ix /\ ix < 0 THEN n + ix + 1
    ELSE 0

\* get_attach_point evaluating the spline at the type-level eval_spot
get_attach_point_nominal(r, prev_parts) ==
    IF r.category = "unihist" THEN [err |-> "none", loc |-> r.gpos]
    ELSE LET p == PyIndex(Len(prev_parts), r.attach_ix)
         IN  IF p = 0 THEN [err |-> "IndexError", loc |-> None]
             ELSE LET prev == prev_parts[p]
                  IN  IF r.category = "start"
                      THEN [err |-> "none", loc |-> prev.motor[1][1]]
                      ELSE IF r.category = "end"
                      THEN [err |-> "none", loc |-> Last(Last(prev.motor))]
                      ELSE LET q == PyIndex(Len(prev.motor_spline), r.attach_subix)
                           IN  IF r.cls # "RelationAttachAlong"
                               THEN [err |-> "AttributeError", loc |-> None]
                               ELSE IF q = 0 THEN [err |-> "IndexError", loc |-> None]
                               ELSE IF \/ RLt(r.eval_spot_token, bspline_lb(ncpt))
                                       \/ RLt(bspline_ub(ncpt), r.eval_spot_token)
                               THEN [err |-> "AssertionError", loc |-> None]
                               ELSE [err |-> "none",
                                     loc |-> bspline_eval(r.eval_spot,
                                                          prev.motor_spline[q])]

\* RelationToken.get_attach_point: the mean attachment point, or the error
\* raised
get_attach_point(r, prev_parts) ==
    IF r.category = "unihist" THEN [err |-> "none", loc |-> r.gpos]
    ELSE LET p == PyIndex(Len(prev_parts), r.attach_ix)
         IN  IF p = 0 THEN [err |-> "IndexError", loc |-> None]
             ELSE LET prev == prev_parts[p]
                  IN  IF r.category = "start"
                      THEN [err |-> "none", loc |-> prev.motor[1][1]]
                      ELSE IF r.category = "end"
                      THEN [err |-> "none", loc |-> Last(Last(prev.motor))]
                      ELSE LET q == PyIndex(Len(prev.motor_spline), r.attach_subix)
                           IN  IF r.cls # "RelationAttachAlong"
                               THEN [err |-> "AttributeError", loc |-> None]
                               ELSE IF q = 0 THEN [err |-> "IndexError", loc |-> None]
                               \* bspline_eval rejects a parameter out of range
                               ELSE IF \/ RLt(r.eval_spot_token, bspline_lb(ncpt))
                                       \/ RLt(bspline_ub(ncpt), r.eval_spot_token)
                               THEN [err |-> "AssertionError", loc |-> None]
                               ELSE [err |-> "none",
                                     loc |-> bspline_eval(r.eval_spot_token,
                                                          prev.motor_spline[q])]

\* the prior parts: stroke tokens with their motor and motor_spline
PartOf(shapes, invscales, first_pos) == vanilla_to_motor(shapes, invscales, first_pos, 2)
PartA == PartOf(<<[k \in 1..ncpt |-> Pt(k, k * k)]>>, <<R(1)>>, Pt(0, 0))
PartB == PartOf(<<[k \in 1..ncpt |-> Pt(2 * k, 1 - k)], [k \in 1..ncpt |-> Pt(k * k, 3)]>>,
                <<R(1), R(2)>>, Pt(1, 1))
Parts == {PartA, PartB}

\* the spline parameters at the halves from lb - 1 to ub + 1
Spots == {RNorm(n, 2) : n \in 2..(2 * ncpt + 4)}
\* type-level eval_spot values
EvalSpots == {bspline_lb(ncpt), <<5, 2>>, bspline_ub(ncpt)}
GPos == Pt(3, -4)

RelNew == [pc |-> "new", op |-> "", rejected |-> FALSE, cls |-> "", category |-> "", gpos |-> None, attach_ix |-> 0,
           attach_subix |-> 0, eval_spot |-> None, has_est |-> FALSE,
           eval_spot_token |-> None, sampled |-> FALSE, ll |-> NegInf,
           prev_parts |-> <<>>, loc |-> None]

InitRel ==
    /\ rel = RelNew
    /\ mtr = [pc |-> "idle"]
    /\ rnd = [pc |-> "idle"]
    /\ sq = [pc |-> "idle"]
    /\ wrp = [pc |-> "idle"]

\* RelationIndependent(category, gpos, imsize, lib)
NewIndependent ==
    /\ rel.pc = "new"
    /\ \E category \in categories_allowed :
          rel' = [rel EXCEPT !.pc = IF category = "unihist" THEN "ready"
                                    ELSE "AssertionError",
                             !.op = "init", !.cls = "RelationIndependent",
                             !.category = category, !.gpos = GPos]
    /\ UNCHANGED <<mtr, rnd, sq, wrp>>

\* RelationAttach(category, attach_ix, lib)
NewAttach ==
    /\ rel.pc = "new"
    /\ \E category \in categories_allowed, attach_ix \in (-(MaxPrev + 1))..MaxPrev :
          rel' = [rel EXCEPT !.pc = IF category \in {"start", "end", "mid"} THEN "ready"
                                    ELSE "AssertionError",
                             !.op = "init", !.cls = "RelationAttach",
                             !.category = category, !.attach_ix = attach_ix]
    /\ UNCHANGED <<mtr, rnd, sq, wrp>>

\* RelationAttachAlong(category, attach_ix, attach_subix, eval_spot, lib)
NewAttachAlong ==
    /\ rel.pc = "new"
    /\ \E category \in categories_allowed, attach_ix \in (-(MaxPrev + 1))..MaxPrev,
          attach_subix \in (-1)..2, eval_spot \in EvalSpots :
          rel' = [rel EXCEPT !.pc = IF category = "mid" THEN "ready"
                                    ELSE "AssertionError",
                             !.op = "init", !.cls = "RelationAttachAlong",
                             !.category = category, !.attach_ix = attach_ix,
                             !.attach_subix = attach_subix, !.eval_spot = eval_spot]
    /\ UNCHANGED <<mtr, rnd, sq, wrp>>

\* rel.sample_token(): Relation.sample_token, or the entry of the loop of
\* sample_eval_spot_token for RelationAttachAlong
SampleToken ==
    /\ rel.pc = "ready"
    /\ rel' = IF rel.cls = "RelationAttachAlong"
              THEN [rel EXCEPT !.pc = "sampling", !.op = "sample_token", !.ll = NegInf]
              ELSE IF rel.category \in {"unihist", "start", "end"}
              THEN [rel EXCEPT !.pc = "token", !.op = "sample_token", !.sampled = TRUE]
              ELSE [rel EXCEPT !.pc = "AssertionError", !.op = "sample_token"]
    /\ UNCHANGED <<mtr, rnd, sq, wrp>>

\* the loop of sample_eval_spot_token raising an error for a draw out of range
Draw_raising ==
    /\ rel.pc = "sampling"
    /\ \E x \in Spots :
         LET ll == score_eval_spot_token(x, Normal(rel.eval_spot, sigma_attach), ncpt)
         IN  rel' = IF ll = NegInf
                    THEN [rel EXCEPT !.pc = "ValueError", !.eval_spot_token = x, !.ll = ll]
                    ELSE [rel EXCEPT !.pc = "token", !.eval_spot_token = x, !.ll = ll,
                                     !.has_est = TRUE, !.sampled = TRUE]
    /\ UNCHANGED <<mtr, rnd, sq, wrp>>

\* one iteration of the loop of sample_eval_spot_token: a draw and its score
Draw ==
    /\ rel.pc = "sampling"
    /\ \E x \in Spots :
         LET ll == score_eval_spot_token(x, Normal(rel.eval_spot, sigma_attach), ncpt)
         IN  rel' = IF ll = NegInf
                    THEN [rel EXCEPT !.eval_spot_token = x, !.ll = ll, !.rejected = TRUE]
                    ELSE [rel EXCEPT !.pc = "token", !.eval_spot_token = x, !.ll = ll,
                                     !.has_est = TRUE, !.sampled = TRUE]
    /\ UNCHANGED <<mtr, rnd, sq, wrp>>

\* RelationToken(rel, eval_spot_token=x): a token with a given eval spot
MakeToken ==
    /\ rel.pc = "ready"
    /\ \E x \in Spots :
          rel' = IF rel.category \in {"unihist", "start", "end"}
                 THEN [rel EXCEPT !.pc = "AssertionError", !.op = "token_init"]
                 ELSE [rel EXCEPT !.pc = "token", !.op = "token_init",
                                  !.eval_spot_token = x,
                                  !.has_est = TRUE, !.ll = NegInf]
    /\ UNCHANGED <<mtr, rnd, sq, wrp>>

\* rel.score_token(token)
ScoreToken ==
    /\ rel.pc = "token"
    /\ rel' = IF rel.cls = "RelationAttachAlong"
              THEN IF rel.has_est
                   THEN [rel EXCEPT !.pc = "scored", !.op = "score_token",
                                    !.ll = score_token(rel)]
                   ELSE [rel EXCEPT !.pc = "AssertionError", !.op = "score_token"]
              ELSE [rel EXCEPT !.pc = "scored", !.op = "score_token",
                               !.ll = score_token(rel)]
    /\ UNCHANGED <<mtr, rnd, sq, wrp>>

\* token.get_attach_point(prev_parts)
GetAttachPoint ==
    /\ rel.pc = "token"
    /\ \E prev_parts \in SeqsUpTo(Parts, 0, MaxPrev) :
         LET got == get_attach_point(rel, prev_parts)
         IN  rel' = [rel EXCEPT !.pc = IF got.err = "none" THEN "located" ELSE got.err,
                                !.op = "get_attach_point",
                                !.prev_parts = prev_parts, !.loc = got.loc]
    /\ UNCHANGED <<mtr, rnd, sq, wrp>>

NextRel ==
    \/ NewIndependent \/ NewAttach \/ NewAttachAlong
    \/ SampleToken \/ Draw \/ MakeToken \/ ScoreToken \/ GetAttachPoint

SpecRel == InitRel /\ [][NextRel]_vars

\* a draw of the sampling loop is accepted some time, as in-range draws have
\* positive probability
FairSpecRel == SpecRel /\ WF_vars(Draw /\ rel'.pc = "token")

InRange(x) == RLe(bspline_lb(ncpt), x) /\ RLe(x, bspline_ub(ncpt))

IsMid == rel.cls = "RelationAttachAlong" /\ rel.category = "mid"

\* C4: every eval_spot_token returned by sample_eval_spot_token (the token
\* of RelationAttachAlong.sample_token) lies within [lb, ub], and
\* score_token on that token does not return -infinity.
C4_TruncatedSampling ==
    (IsMid /\ rel.sampled) =>
        /\ rel.has_est /\ InRange(rel.eval_spot_token)
        /\ rel.op = "score_token" => rel.pc = "scored" /\ rel.ll # NegInf

\* a token sampled after a rejected draw has been scored
C4_Witness ==
    /\ IsMid /\ rel.sampled /\ rel.rejected
    /\ rel.pc = "scored"
    /\ rel.eval_spot_token # rel.eval_spot

\* C5: score_token of a mid relation on a token whose eval_spot_token is
\* below lb or above ub returns -infinity and raises no error; inside
\* [lb, ub], bounds included, it returns the normal log-density minus the log
\* of the normal mass between lb and ub.
C5_OutOfRangeScore ==
    (IsMid /\ rel.op = "score_token") =>
        /\ rel.pc = "scored"
        /\ LET d == Normal(rel.eval_spot, sigma_attach)
               x == rel.eval_spot_token
               lb == bspline_lb(ncpt)
               ub == bspline_ub(ncpt)
           IN  IF RLt(x, lb) \/ RLt(ub, x) THEN rel.ll = NegInf
               ELSE rel.ll = Minus(log_prob(d, x), Log(Minus(cdf(d, ub), cdf(d, lb))))

\* tokens with an eval spot out of the range and on a bound have been scored
C5_Witness ==
    /\ IsMid /\ rel.op = "score_token" /\ ~rel.sampled
    /\ \/ ~InRange(rel.eval_spot_token) /\ rel.ll = NegInf
       \/ rel.eval_spot_token = bspline_ub(ncpt) /\ rel.ll # NegInf

\* C6: get_attach_point of an attach relation whose attach_ix is negative
\* or not below the number of prior strokes fails; it returns no location.
C6_AttachIndexChecked ==
    (/\ rel.op = "get_attach_point"
     /\ rel.category \in {"start", "end", "mid"}
     /\ (rel.attach_ix < 0 \/ rel.attach_ix >= Len(rel.prev_parts)))
    => rel.pc # "located" /\ rel.loc = None

\* C7: in the loop of sample_eval_spot_token a draw out of the bounds is not
\* returned and raises no error, the loop draws again; with draws chosen
\* fairly the loop ends with a draw within the bounds.
C7_RejectionRecovery ==
    /\ [][rel.pc = "sampling" =>
            \/ rel'.pc = "sampling" /\ ~InRange(rel'.eval_spot_token)
            \/ rel'.pc = "token" /\ InRange(rel'.eval_spot_token)]_vars
    /\ (rel.pc = "sampling") ~> (rel.pc = "token")

\* the loop has ended after it rejected a draw
C7_Witness == rel.pc = "token" /\ IsMid /\ rel.sampled /\ rel.rejected

\* the control points of sub-stroke attach_subix of prior stroke attach_ix
AttachedSpline == rel.prev_parts[rel.attach_ix + 1].motor_spline[rel.attach_subix + 1]

ValidAttach ==
    /\ IsMid /\ rel.pc = "located"
    /\ 0 <= rel.attach_ix /\ rel.attach_ix < Len(rel.prev_parts)
    /\ 0 <= rel.attach_subix
    /\ rel.attach_subix < Len(rel.prev_parts[rel.attach_ix + 1].motor_spline)

\* C9 as claimed: the attach point of a mid relation is the spline evaluated
\* at the type-level eval_spot.
C9_NominalSpot ==
    ValidAttach => rel.loc = bspline_eval(rel.eval_spot, AttachedSpline)

\* C9: the attach point of a mid relation is the spline of sub-stroke
\* attach_subix of prior stroke attach_ix evaluated at the eval_spot_token
\* of the token.
C9_TokenSpot ==
    ValidAttach => rel.loc = bspline_eval(rel.eval_spot_token, AttachedSpline)

\* an attach point on the second sub-stroke of the second prior stroke, for a
\* token whose eval spot is not the type-level one
C9_Witness ==
    /\ ValidAttach
    /\ rel.attach_ix = 1 /\ rel.attach_subix = 1
    /\ rel.eval_spot_token # rel.eval_spot
    /\ rel.loc # bspline_eval(rel.eval_spot, AttachedSpline)

=============================================================================
